---- MODULE Spec2Model ----
(***************************************************************************)
(* gitty: the menu controller (ui.Model) and the sub-flows it hosts        *)
(* (CommitModel, ResetModel, RollbackModel, ReleaseModel, PublishModel),   *)
(* run by the Bubble Tea event loop.                                       *)
(*                                                                         *)
(* The event loop handles one message at a time.  A tea.Cmd returned by a  *)
(* handler runs in its own goroutine and sends its result message back to  *)
(* the loop, so the commands in flight are a bag (pending) whose results   *)
(* arrive in any order, interleaved with key presses.  tea.Tick timers all *)
(* have the same duration and therefore fire in the order they were set    *)
(* (timers).                                                               *)
(*                                                                         *)
(* Not modelled: rendering (View, spinner, renderer, cursor blink), the    *)
(* list cursor (enter executes any entry, the cursor being movable to any  *)
(* entry by keys that change nothing else), and the inside of the huh      *)
(* forms (a form is either still being filled in or completed with the     *)
(* values the user chose).                                                 *)
(***************************************************************************)
EXTENDS Integers, Sequences, FiniteSets, Bags, TLC

VARIABLES
    loading,    \* Model.loading
    message,    \* Model.message
    msgType,    \* Model.msgType
    quitting,   \* Model.quitting
    status,     \* Model.status: "nil" or a snapshot
    inSubView,  \* Model.inSubView
    subModel,   \* Model.subModel: Nil or the active sub-flow's fields
    pending,    \* bag of commands in flight (dispatched, result not yet handled)
    timers,     \* clearMessageAfter timers not yet fired, oldest first
    exited,     \* the event loop has handled tea.Quit's message
    inputs,     \* history: the number of inputs the user has made
    call        \* the function or command examined on its own: its input
                \* and what it returned (NoCall while the program runs)

vars == <<loading, message, msgType, quitting, status, inSubView, subModel,
          pending, timers, exited, inputs, call>>

(***************************************************************************)
(* Bounds                                                                  *)
(***************************************************************************)
\* commands in flight at once (key presses that would exceed it are not made)
MaxPending == 2
\* clear timers outstanding at once
MaxTimers == 2
\* inputs (key presses, typed text, completed forms) the user makes in a run
MaxInputs == 4

(***************************************************************************)
(* Values                                                                  *)
(***************************************************************************)
\* no function is being examined
NoCall == [fn |-> "none"]

Nil == [kind |-> "nil"]

\* failure details returned by the external commands
Errs == {"e1"}
\* repository snapshots git.GetStatus can return
Snapshots == {"s1"}
\* text is a sequence of characters; NL is the newline
NL == "\n"
\* text the user can have typed into the commit title and body
Titles == {<<>>, <<" ">>, <<"a">>}
Bodies == {<<>>, <<"b">>}
\* messages the AI client can return
Generated == {<<"a", NL, NL, "b">>}
\* tag names accepted by the release form (the form validates non-empty)
TagNames == {"v1"}

Keys == {"q", "ctrl+c", "esc", "enter", " ", "tab", "y", "n", "e",
         "a", "c", "i", "p", "l", "r", "u", "o", "g", "b"}

\* Action
ActionAdd == "ActionAdd"
ActionCommit == "ActionCommit"
ActionAICommit == "ActionAICommit"
ActionPush == "ActionPush"
ActionPull == "ActionPull"
ActionReset == "ActionReset"
ActionRollback == "ActionRollback"
ActionPublish == "ActionPublish"
ActionOpen == "ActionOpen"
ActionLazygit == "ActionLazygit"
ActionBranches == "ActionBranches"
ActionQuit == "ActionQuit"

\* NewModel: the menu entries, shortcut and action
items ==
    << [shortcut |-> "a", action |-> ActionAdd],
       [shortcut |-> "c", action |-> ActionCommit],
       [shortcut |-> "i", action |-> ActionAICommit],
       [shortcut |-> "p", action |-> ActionPush],
       [shortcut |-> "l", action |-> ActionPull],
       [shortcut |-> "r", action |-> ActionReset],
       [shortcut |-> "u", action |-> ActionPublish],
       [shortcut |-> "o", action |-> ActionOpen],
       [shortcut |-> "g", action |-> ActionLazygit],
       [shortcut |-> "b", action |-> ActionBranches],
       [shortcut |-> "q", action |-> ActionQuit] >>

(***************************************************************************)
(* Commands and messages                                                   *)
(*                                                                         *)
(* A command in flight is [cmd, own, text, ty]: cmd names the function     *)
(* that runs, text and ty are the values its closure captured, and own is  *)
(* history: TRUE while the sub-flow instance that dispatched the command   *)
(* is still the active one.  No handler reads own.                         *)
(* A message is [t, ok, text, ty, seq]: text and ty are strings, seq is a   *)
(* text (a sequence of characters).                                        *)
(***************************************************************************)
Task(c, o) == [cmd |-> c, own |-> o, text |-> "", ty |-> ""]
ReturnCmd(txt, typ) == [cmd |-> "return", own |-> TRUE, text |-> txt, ty |-> typ]

Msg(type) == [t |-> type, ok |-> TRUE, text |-> "", ty |-> "", seq |-> <<>>]
ErrMsg(type, e) == [t |-> type, ok |-> FALSE, text |-> e, ty |-> "", seq |-> <<>>]
TextMsg(type, txt) == [t |-> type, ok |-> TRUE, text |-> txt, ty |-> "", seq |-> <<>>]
SeqMsg(type, s) == [t |-> type, ok |-> TRUE, text |-> "", ty |-> "", seq |-> s]
actionCompleteMsg(success, txt) ==
    [t |-> "actionCompleteMsg", ok |-> success, text |-> txt, ty |-> "", seq |-> <<>>]
ReturnToMenuMsg(txt, typ) ==
    [t |-> "ReturnToMenuMsg", ok |-> TRUE, text |-> txt, ty |-> typ, seq |-> <<>>]
KeyMsg(k) == [t |-> "KeyMsg", ok |-> TRUE, text |-> k, ty |-> "", seq |-> <<>>]
\* the key strokes that leave the focused text field of the commit form
\* holding the text s
TypedMsg(s) == SeqMsg("typed", s)
\* the message with which a huh form reaches StateCompleted: ok is the value
\* of the form's confirm field, text the tag name typed (release form)
\* tea.WindowSizeMsg
WindowSizeMsg(w, h) ==
    [t |-> "WindowSizeMsg", ok |-> TRUE, text |-> "", ty |-> "", seq |-> <<>>,
     Width |-> w, Height |-> h]
FormMsg(confirm, txt) ==
    [t |-> "formCompleted", ok |-> confirm, text |-> txt, ty |-> "", seq |-> <<>>]

\* the commands that invoke git, gh, the browser or the AI endpoint
ExternalCmds ==
    {"refreshStatus", "AddAll", "Push", "Pull", "Open", "Branches",
     "checkStatusAsync", "generateMessage", "doCommit", "doReset",
     "doRollback", "doRelease", "checkRepo", "pushToRemote", "doPublish"}

(***************************************************************************)
(* Text: strings.TrimSpace, strings.Split, strings.SplitN                  *)
(***************************************************************************)
IsSpace(c) == c \in {" ", NL, "\t"}

RECURSIVE TrimLeft(_)
TrimLeft(s) == IF s # <<>> /\ IsSpace(Head(s)) THEN TrimLeft(Tail(s)) ELSE s

RECURSIVE TrimRight(_)
TrimRight(s) ==
    IF s # <<>> /\ IsSpace(s[Len(s)]) THEN TrimRight(SubSeq(s, 1, Len(s) - 1)) ELSE s

TrimSpace(s) == TrimRight(TrimLeft(s))

\* strings.Split(s, "\n")[0]: the text before the first newline
FirstLine(s) ==
    LET nl == {i \in 1..Len(s) : s[i] = NL}
    IN  IF nl = {} THEN s
        ELSE SubSeq(s, 1, (CHOOSE i \in nl : \A j \in nl : i <= j) - 1)

\* positions where "\n\n" starts
BlankAt(s) == {i \in 1..(Len(s) - 1) : s[i] = NL /\ s[i + 1] = NL}

\* strings.SplitN(s, "\n\n", 2)
SplitBlank(s) ==
    IF BlankAt(s) = {} THEN <<s>>
    ELSE LET i == CHOOSE i \in BlankAt(s) : \A j \in BlankAt(s) : i <= j
         IN  <<SubSeq(s, 1, i - 1), SubSeq(s, i + 2, Len(s))>>

(***************************************************************************)
(* Sub-flows.  A sub-flow is a record of the fields of its Go struct; the  *)
(* fields a flow kind does not have keep their zero value.  form is "nil", *)
(* "normal" (huh.StateNormal) or "completed" (huh.StateCompleted).         *)
(* An Update operator returns [m, cmds]: the sub-flow after the message    *)
(* and the set of commands the handler returned.                           *)
(***************************************************************************)
SubFlow(k, st, ai, f) ==
    [kind |-> k, state |-> st, useAI |-> ai, form |-> f, confirmed |-> FALSE,
     err |-> "", commitMsg |-> <<>>, textInput |-> <<>>, textArea |-> <<>>,
     inputFocused |-> TRUE, ready |-> FALSE, tagName |-> "",
     hasRemote |-> FALSE, addTag |-> FALSE]

\* NewResetModel followed by ResetModel.Init
NewResetModel == SubFlow("reset", "resetStateConfirm", FALSE, "normal")
\* NewRollbackModel followed by RollbackModel.Init
NewRollbackModel == SubFlow("rollback", "rollbackStateConfirm", FALSE, "normal")
\* NewReleaseModel followed by ReleaseModel.Init
NewReleaseModel == SubFlow("release", "releaseStateForm", FALSE, "normal")
\* NewCommitModel: state is the zero value commitStateInput, ready is false
NewCommitModel(useAI) == SubFlow("commit", "commitStateInput", useAI, "nil")
\* NewPublishModel
NewPublishModel == SubFlow("publish", "publishStateInit", FALSE, "nil")

\* the commands the sub-flow's Init returns (spinner.Tick, textinput.Blink,
\* initRendererCmd and form.Init only drive rendering)
InitCmds(m) ==
    CASE m.kind = "commit" ->
           {[Task("checkStatusAsync", TRUE) EXCEPT !.ty = IF m.useAI THEN "ai" ELSE "manual"]}
      [] m.kind = "publish" -> {Task("checkRepo", TRUE)}
      [] OTHER -> {}

Keep(m) == [m |-> m, cmds |-> {}]
IsCancelKey(msg) == msg.t = "KeyMsg" /\ msg.text \in {"ctrl+c", "esc"}

\* huh.Form.Update: a form that is not in StateNormal ignores every message
FormUpdate(m, msg) ==
    IF m.form = "normal" /\ msg.t = "formCompleted"
    THEN [m EXCEPT !.form = "completed"]
    ELSE m

\* faulty variant of ResetModel.Update: escape reports "Reset cancelled"
ResetUpdate_escReports(m, msg) ==
    IF IsCancelKey(msg) THEN [m |-> m, cmds |-> {ReturnCmd("Reset cancelled", "info")}]
    ELSE IF m.state = "resetStateConfirm" /\ m.form # "nil"
    THEN LET f == FormUpdate(m, msg)
             v == IF f.form # m.form THEN [f EXCEPT !.confirmed = msg.ok] ELSE f
         IN  IF v.form = "completed"
             THEN IF v.confirmed
                  THEN [m |-> [v EXCEPT !.state = "resetStateWorking"],
                        cmds |-> {Task("doReset", TRUE)}]
                  ELSE [m |-> v, cmds |-> {ReturnCmd("Reset cancelled", "info")}]
             ELSE Keep(v)
    ELSE Keep(m)

\* ResetModel.Update
ResetUpdate(m, msg) ==
    IF IsCancelKey(msg) THEN [m |-> m, cmds |-> {ReturnCmd("", "")}]
    ELSE IF m.state = "resetStateConfirm" /\ m.form # "nil"
    THEN LET f == FormUpdate(m, msg)
             v == IF f.form # m.form THEN [f EXCEPT !.confirmed = msg.ok] ELSE f
         IN  IF v.form = "completed"
             THEN IF v.confirmed
                  THEN [m |-> [v EXCEPT !.state = "resetStateWorking"],
                        cmds |-> {Task("doReset", TRUE)}]
                  ELSE [m |-> v, cmds |-> {ReturnCmd("Reset cancelled", "info")}]
             ELSE Keep(v)
    ELSE Keep(m)

\* RollbackModel.Update
RollbackUpdate(m, msg) ==
    IF IsCancelKey(msg) THEN [m |-> m, cmds |-> {ReturnCmd("", "")}]
    ELSE IF msg.t = "rollbackDoneMsg"
    THEN [m |-> [m EXCEPT !.state = "rollbackStateDone"],
          cmds |-> {ReturnCmd("Rollback successful", "success")}]
    ELSE IF msg.t = "rollbackErrorMsg"
    THEN Keep([m EXCEPT !.state = "rollbackStateError", !.err = msg.text])
    ELSE IF m.state = "rollbackStateConfirm" /\ m.form # "nil"
    THEN LET f == FormUpdate(m, msg)
             v == IF f.form # m.form THEN [f EXCEPT !.confirmed = msg.ok] ELSE f
         IN  IF v.form = "completed"
             THEN IF v.confirmed
                  THEN [m |-> [v EXCEPT !.state = "rollbackStateWorking"],
                        cmds |-> {Task("doRollback", TRUE)}]
                  ELSE [m |-> v, cmds |-> {ReturnCmd("Rollback cancelled", "info")}]
             ELSE Keep(v)
    ELSE Keep(m)

\* ReleaseModel.Update
ReleaseUpdate(m, msg) ==
    IF IsCancelKey(msg) THEN [m |-> m, cmds |-> {ReturnCmd("", "")}]
    ELSE IF msg.t = "releaseDoneMsg"
    THEN [m |-> [m EXCEPT !.state = "releaseStateDone"],
          cmds |-> {ReturnCmd("Release " \o m.tagName \o " created and pushed", "success")}]
    ELSE IF msg.t = "releaseErrorMsg"
    THEN Keep([m EXCEPT !.state = "releaseStateError", !.err = msg.text])
    ELSE IF m.state = "releaseStateForm" /\ m.form # "nil"
    THEN LET f == FormUpdate(m, msg)
             v == IF f.form # m.form
                  THEN [f EXCEPT !.confirmed = msg.ok, !.tagName = msg.text]
                  ELSE f
         IN  IF v.form = "completed"
             THEN IF v.confirmed
                  THEN [m |-> [v EXCEPT !.state = "releaseStateWorking"],
                        cmds |-> {Task("doRelease", TRUE)}]
                  ELSE [m |-> v, cmds |-> {ReturnCmd("Release cancelled", "info")}]
             ELSE Keep(v)
    ELSE Keep(m)

\* faulty variant of CommitModel.submitForm: the title is not trimmed
submitForm_untrimmed(m) ==
    LET title == m.textInput
        body == TrimSpace(m.textArea)
    IN  IF title = <<>> THEN Keep(m)
        ELSE Keep([m EXCEPT !.commitMsg = IF body # <<>>
                                          THEN title \o <<NL, NL>> \o body
                                          ELSE title,
                            !.state = "commitStateConfirm"])

\* faulty variant of CommitModel.submitForm: the body follows the title on
\* the next line
submitForm_oneNewline(m) ==
    LET title == TrimSpace(m.textInput)
        body == TrimSpace(m.textArea)
    IN  IF title = <<>> THEN Keep(m)
        ELSE Keep([m EXCEPT !.commitMsg = IF body # <<>>
                                          THEN title \o <<NL>> \o body
                                          ELSE title,
                            !.state = "commitStateConfirm"])

\* CommitModel.submitForm
submitForm(m) ==
    LET title == TrimSpace(m.textInput)
        body == TrimSpace(m.textArea)
    IN  IF title = <<>> THEN Keep(m)
        ELSE Keep([m EXCEPT !.commitMsg = IF body # <<>>
                                          THEN title \o <<NL, NL>> \o body
                                          ELSE title,
                            !.state = "commitStateConfirm"])

\* CommitModel.handleEnter
commitHandleEnter(m) ==
    CASE m.state = "commitStateNoChanges" ->
           [m |-> m, cmds |-> {ReturnCmd("No staged changes to commit", "info")}]
      [] m.state = "commitStateError" ->
           [m |-> m, cmds |-> {ReturnCmd("Error: " \o m.err, "error")}]
      [] OTHER -> Keep(m)

\* CommitModel.Update, the "e" key at the confirmation: edit the message
commitEdit(m) ==
    LET parts == SplitBlank(m.commitMsg)
    IN  [m EXCEPT !.textInput = FirstLine(m.commitMsg),
                  !.textArea = IF Len(parts) > 1 THEN parts[2] ELSE m.textArea,
                  !.inputFocused = TRUE,
                  !.state = "commitStateInput"]

\* CommitModel.Update, the text fields in the input state
commitTextUpdate(m, msg) ==
    IF m.state = "commitStateInput" /\ msg.t = "typed"
    THEN IF m.inputFocused
         THEN Keep([m EXCEPT !.textInput = msg.seq])
         ELSE Keep([m EXCEPT !.textArea = msg.seq])
    ELSE Keep(m)

\* CommitModel.Update, case tea.KeyMsg
commitKey(m, k) ==
    CASE k \in {"ctrl+c", "esc"} ->
           [m |-> m, cmds |-> {ReturnCmd("Cancelled", "info")}]
      [] k = "enter" ->
           IF m.state = "commitStateInput" THEN submitForm(m) ELSE commitHandleEnter(m)
      [] k = "tab" /\ m.state = "commitStateInput" /\ ~m.useAI ->
           Keep([m EXCEPT !.inputFocused = ~m.inputFocused])
      [] k = "y" /\ m.state = "commitStateConfirm" ->
           [m |-> [m EXCEPT !.state = "commitStateCommitting"],
            cmds |-> {Task("doCommit", TRUE)}]
      [] k = "n" /\ m.state = "commitStateConfirm" ->
           [m |-> m, cmds |-> {ReturnCmd("Commit cancelled", "info")}]
      [] k = "e" /\ m.state = "commitStateConfirm" -> Keep(commitEdit(m))
      [] OTHER -> Keep(m)

\* CommitModel.Update
CommitUpdate(m, msg) ==
    CASE msg.t = "KeyMsg" -> commitKey(m, msg.text)
      [] msg.t = "commitReadyMsg" ->
           IF m.useAI
           THEN [m |-> [m EXCEPT !.ready = TRUE, !.state = "commitStateGenerating"],
                 cmds |-> {Task("generateMessage", TRUE)}]
           ELSE Keep([m EXCEPT !.ready = TRUE, !.state = "commitStateInput"])
      [] msg.t = "commitNoChangesMsg" -> Keep([m EXCEPT !.state = "commitStateNoChanges"])
      [] msg.t = "commitGeneratedMsg" ->
           Keep([m EXCEPT !.commitMsg = msg.seq, !.state = "commitStateConfirm"])
      [] msg.t = "commitErrorMsg" ->
           Keep([m EXCEPT !.state = "commitStateError", !.err = msg.text])
      [] msg.t = "commitDoneMsg" ->
           [m |-> [m EXCEPT !.state = "commitStateDone"],
            cmds |-> {ReturnCmd("Commit successful!", "success")}]
      [] OTHER -> commitTextUpdate(m, msg)

\* the URL git.GetGitHubURL reports after a publish
RepoURL == "url"

\* faulty variant of PublishModel.handleEnter: enter starts the publish again
\* while it is running
publishHandleEnter_again(m) ==
    CASE m.state \in {"publishStateConfirm", "publishStateWorking"} ->
           [m |-> [m EXCEPT !.state = "publishStateWorking"],
            cmds |-> {Task("doPublish", TRUE)}]
      [] m.state = "publishStateError" ->
           [m |-> m, cmds |-> {ReturnCmd("Error: " \o m.err, "error")}]
      [] m.state = "publishStateDone" ->
           [m |-> m, cmds |-> {ReturnCmd("Published to " \o RepoURL, "success")}]
      [] OTHER -> Keep(m)

\* faulty variant of PublishModel.handleEnter: enter starts the publish
\* before the repository check has returned
publishHandleEnter_early(m) ==
    CASE m.state \in {"publishStateConfirm", "publishStateInit"} ->
           [m |-> [m EXCEPT !.state = "publishStateWorking"],
            cmds |-> {Task("doPublish", TRUE)}]
      [] m.state = "publishStateError" ->
           [m |-> m, cmds |-> {ReturnCmd("Error: " \o m.err, "error")}]
      [] m.state = "publishStateDone" ->
           [m |-> m, cmds |-> {ReturnCmd("Published to " \o RepoURL, "success")}]
      [] OTHER -> Keep(m)

\* PublishModel.handleEnter
publishHandleEnter(m) ==
    CASE m.state = "publishStateConfirm" ->
           [m |-> [m EXCEPT !.state = "publishStateWorking"],
            cmds |-> {Task("doPublish", TRUE)}]
      [] m.state = "publishStateError" ->
           [m |-> m, cmds |-> {ReturnCmd("Error: " \o m.err, "error")}]
      [] m.state = "publishStateDone" ->
           [m |-> m, cmds |-> {ReturnCmd("Published to " \o RepoURL, "success")}]
      [] OTHER -> Keep(m)

\* PublishModel.Update, the form in publishStateForm
publishFormUpdate(m, msg) ==
    IF m.state = "publishStateForm" /\ m.form # "nil"
    THEN LET f == FormUpdate(m, msg)
             v == IF f.form # m.form THEN [f EXCEPT !.addTag = msg.ok] ELSE f
         IN  IF v.form = "completed"
             THEN Keep([v EXCEPT !.state = "publishStateConfirm"])
             ELSE Keep(v)
    ELSE Keep(m)

\* faulty variant of PublishModel.Update: the form is shown although the
\* remote exists, and the push is dispatched beside it
PublishUpdate_formAnyway(m, msg) ==
    CASE IsCancelKey(msg) -> [m |-> m, cmds |-> {ReturnCmd("", "")}]
      [] msg.t = "KeyMsg" /\ msg.text = "enter" /\ m.state # "publishStateForm" ->
           publishHandleEnter(m)
      [] msg.t = "publishRepoCheckedMsg" ->
           IF msg.ok
           THEN [m |-> [m EXCEPT !.hasRemote = TRUE, !.state = "publishStateForm",
                                 !.form = "normal"],
                 cmds |-> {Task("pushToRemote", TRUE)}]
           ELSE Keep([m EXCEPT !.hasRemote = FALSE, !.state = "publishStateForm",
                               !.form = "normal"])
      [] msg.t = "publishErrorMsg" ->
           Keep([m EXCEPT !.state = "publishStateError", !.err = msg.text])
      [] msg.t = "publishDoneMsg" ->
           [m |-> [m EXCEPT !.state = "publishStateDone"],
            cmds |-> {ReturnCmd("Published to " \o msg.text, "success")}]
      [] OTHER -> publishFormUpdate(m, msg)

\* PublishModel.Update
PublishUpdate(m, msg) ==
    CASE IsCancelKey(msg) -> [m |-> m, cmds |-> {ReturnCmd("", "")}]
      [] msg.t = "KeyMsg" /\ msg.text = "enter" /\ m.state # "publishStateForm" ->
           publishHandleEnter(m)
      [] msg.t = "publishRepoCheckedMsg" ->
           IF msg.ok
           THEN [m |-> [m EXCEPT !.hasRemote = TRUE, !.state = "publishStateWorking"],
                 cmds |-> {Task("pushToRemote", TRUE)}]
           ELSE Keep([m EXCEPT !.hasRemote = FALSE, !.state = "publishStateForm",
                               !.form = "normal"])
      [] msg.t = "publishErrorMsg" ->
           Keep([m EXCEPT !.state = "publishStateError", !.err = msg.text])
      [] msg.t = "publishDoneMsg" ->
           [m |-> [m EXCEPT !.state = "publishStateDone"],
            cmds |-> {ReturnCmd("Published to " \o msg.text, "success")}]
      [] OTHER -> publishFormUpdate(m, msg)

\* tea.Model.Update of the active sub-flow
SubUpdate(m, msg) ==
    CASE m.kind = "commit" -> CommitUpdate(m, msg)
      [] m.kind = "reset" -> ResetUpdate(m, msg)
      [] m.kind = "rollback" -> RollbackUpdate(m, msg)
      [] m.kind = "release" -> ReleaseUpdate(m, msg)
      [] m.kind = "publish" -> PublishUpdate(m, msg)

\* the sub-flow is executing its underlying command
Working(m) ==
    m.state \in {"commitStateCommitting", "resetStateWorking", "rollbackStateWorking",
                 "releaseStateWorking", "publishStateWorking"}

(***************************************************************************)
(* The work behind the commands, and the text functions.  A command        *)
(* operator takes the flow and env, the result of each external call it    *)
(* can make (Ok or a failure detail), and returns [calls, msg]: the        *)
(* external calls it made, in order, and the message it sent back.         *)
(***************************************************************************)
Ok == "ok"
Results == {Ok} \cup Errs

\* faulty variant of ReleaseModel.doRelease: the tags are pushed although the
\* tag could not be created
doRelease_pushAnyway(m, env) ==
    IF env.PushTags # Ok
    THEN [calls |-> <<"TagAnnotated", "PushTags">>,
          msg |-> ErrMsg("releaseErrorMsg", "failed to push tags: " \o env.PushTags)]
    ELSE IF env.TagAnnotated # Ok
    THEN [calls |-> <<"TagAnnotated", "PushTags">>,
          msg |-> ErrMsg("releaseErrorMsg", "failed to create tag: " \o env.TagAnnotated)]
    ELSE [calls |-> <<"TagAnnotated", "PushTags">>, msg |-> Msg("releaseDoneMsg")]

\* ReleaseModel.doRelease
doRelease(m, env) ==
    IF env.TagAnnotated # Ok
    THEN [calls |-> <<"TagAnnotated">>,
          msg |-> ErrMsg("releaseErrorMsg", "failed to create tag: " \o env.TagAnnotated)]
    ELSE IF env.PushTags # Ok
    THEN [calls |-> <<"TagAnnotated", "PushTags">>,
          msg |-> ErrMsg("releaseErrorMsg", "failed to push tags: " \o env.PushTags)]
    ELSE [calls |-> <<"TagAnnotated", "PushTags">>, msg |-> Msg("releaseDoneMsg")]

\* PublishModel.pushToRemote; the results of AddAll, Commit and GetGitHubURL
\* are discarded by the code
pushToRemote(m, env) ==
    LET commit == IF env.status.HasUnstaged \/ env.status.HasUntracked
                  THEN <<"AddAll", "Commit(Update)">>
                  ELSE <<>>
        calls == <<"GetStatus">> \o commit \o <<"PushWithUpstream">>
    IN  IF env.PushWithUpstream # Ok
        THEN [calls |-> calls, msg |-> ErrMsg("publishErrorMsg", env.PushWithUpstream)]
        ELSE [calls |-> calls \o <<"GetGitHubURL">>,
              msg |-> TextMsg("publishDoneMsg", RepoURL)]

\* PublishModel.doPublish; the result of Tag is discarded by the code, and
\* the URL reported is RepoURL whether GetGitHubURL found it or not
doPublish(m, env) ==
    LET user == IF env.user THEN <<"SetUser">> ELSE <<>>
        stage == user \o <<"AddAll">>
        commit == stage \o <<"GetStatus">>
                    \o (IF env.status.HasStaged THEN <<"Commit(commitMsg)">> ELSE <<>>)
        tag == IF m.addTag /\ m.tagName # "" THEN <<"Tag">> ELSE <<>>
        create == commit \o tag \o <<"gh repo create">>
    IN  IF env.AddAll # Ok
        THEN [calls |-> stage,
              msg |-> ErrMsg("publishErrorMsg", "failed to stage changes: " \o env.AddAll)]
        ELSE IF env.status.HasStaged /\ env.Commit # Ok
        THEN [calls |-> commit,
              msg |-> ErrMsg("publishErrorMsg", "failed to commit: " \o env.Commit)]
        ELSE IF env.gh # Ok
        THEN [calls |-> create,
              msg |-> ErrMsg("publishErrorMsg", "gh cli error: " \o env.gh)]
        ELSE [calls |-> create \o <<"GetGitHubURL">>,
              msg |-> TextMsg("publishDoneMsg", RepoURL)]

\* faulty variant of isStaged: an untracked path counts as staged
isStaged_notBlank(x) == x # " "

\* the records git status --porcelain prints: index state, worktree state,
\* a space and the path
isStaged(x) == x # " " /\ x # "?"
isModified(y) == y # " " /\ y # "?"
isUntracked(x, y) == x = "?" /\ y = "?"

\* strings.TrimSpace(line[3:])
fileOf(line) == TrimSpace(SubSeq(line, 4, Len(line)))

\* the loop over the lines of the porcelain output: st is the status so far
RECURSIVE classify(_, _)
classify(lines, st) ==
    IF lines = <<>> THEN st
    ELSE LET line == Head(lines)
         IN  IF Len(line) < 3 THEN classify(Tail(lines), st)
             ELSE LET x == line[1]
                      y == line[2]
                      file == fileOf(line)
                      a == IF isStaged(x)
                           THEN [st EXCEPT !.HasStaged = TRUE,
                                           !.StagedFiles = Append(@, file)]
                           ELSE st
                      b == IF isModified(y)
                           THEN [a EXCEPT !.HasUnstaged = TRUE,
                                          !.ModifiedFiles = Append(@, file)]
                           ELSE a
                      c == IF isUntracked(x, y)
                           THEN [b EXCEPT !.HasUntracked = TRUE,
                                          !.UntrackedFiles = Append(@, file)]
                           ELSE b
                  IN  classify(Tail(lines), c)

\* strings.Fields: the words of s
RECURSIVE Fields(_)
Fields(s) ==
    LET t == TrimLeft(s)
        ends == {i \in 1..Len(t) : IsSpace(t[i])} \cup {Len(t) + 1}
        n == CHOOSE i \in ends : \A j \in ends : i <= j
    IN  IF t = <<>> THEN <<>>
        ELSE <<SubSeq(t, 1, n - 1)>> \o Fields(SubSeq(t, n, Len(t)))

Digit == [c \in {"0", "1", "2", "3", "4", "5", "6", "7", "8", "9"} |->
            CASE c = "0" -> 0 [] c = "1" -> 1 [] c = "2" -> 2 [] c = "3" -> 3
              [] c = "4" -> 4 [] c = "5" -> 5 [] c = "6" -> 6 [] c = "7" -> 7
              [] c = "8" -> 8 [] c = "9" -> 9]

\* fmt.Sscanf(s, "%d", &n) with n zero: the number the leading digits spell,
\* n left zero when there is none
RECURSIVE Sscanf(_, _)
Sscanf(s, n) ==
    IF s # <<>> /\ Head(s) \in DOMAIN Digit
    THEN Sscanf(Tail(s), 10 * n + Digit[Head(s)])
    ELSE n

\* faulty variant of aheadBehind: a failing query fails the status read
aheadBehind_strict(st, upstream) ==
    IF upstream.err THEN [st EXCEPT !.err = "no upstream", !.Branch = ""]
    ELSE LET parts == Fields(upstream.out)
         IN  IF Len(upstream.out) > 0 /\ Len(parts) = 2
             THEN [st EXCEPT !.Ahead = Sscanf(parts[1], 0), !.Behind = Sscanf(parts[2], 0)]
             ELSE st

\* GetStatus, the ahead/behind counts: upstream is what
\* git rev-list --left-right --count HEAD...@{upstream} printed; its error is
\* discarded
aheadBehind(st, upstream) ==
    LET parts == Fields(upstream.out)
    IN  IF Len(upstream.out) > 0 /\ Len(parts) = 2
        THEN [st EXCEPT !.Ahead = Sscanf(parts[1], 0), !.Behind = Sscanf(parts[2], 0)]
        ELSE st

\* the zero Status, with the error GetStatus returns beside it
NoStatus ==
    [err |-> "nil", IsRepo |-> FALSE, Branch |-> "", RemoteURL |-> "",
     HasStaged |-> FALSE, HasUnstaged |-> FALSE, HasUntracked |-> FALSE,
     Ahead |-> 0, Behind |-> 0,
     StagedFiles |-> <<>>, ModifiedFiles |-> <<>>, UntrackedFiles |-> <<>>]

\* git.GetStatus; env.branch and env.remote are "" when GetBranch and
\* GetRemoteURL fail
GetStatus(env) ==
    IF ~env.isRepo THEN NoStatus
    ELSE LET st == [NoStatus EXCEPT !.IsRepo = TRUE, !.Branch = env.branch,
                                    !.RemoteURL = env.remote]
         IN  IF env.porcelain.err THEN st
             ELSE aheadBehind(classify(env.porcelain.lines, st), env.upstream)

\* the marker appended to a diff that was cut: "\n...(truncated)"
TruncationMarker ==
    <<NL, ".", ".", ".", "(", "t", "r", "u", "n", "c", "a", "t", "e", "d", ")">>

\* the words before the diff in the user prompt
PromptHead == <<"Generate a commit message for this diff:", NL, NL>>

\* ai.GenerateCommitMessage up to the request: the error it returns without
\* a request, or the user prompt it sends; diff[:n] with a negative n is a
\* run-time panic (slice bounds out of range)
GenerateCommitMessage(diff, cfg) ==
    IF cfg.APIKey = ""
    THEN [err |-> "API key not configured", panic |-> FALSE, userPrompt |-> <<>>]
    ELSE IF Len(diff) > cfg.MaxDiffSize
    THEN IF cfg.MaxDiffSize < 0
         THEN [err |-> "nil", panic |-> TRUE, userPrompt |-> <<>>]
         ELSE [err |-> "nil", panic |-> FALSE,
               userPrompt |-> PromptHead \o SubSeq(diff, 1, cfg.MaxDiffSize)
                                  \o TruncationMarker]
    ELSE [err |-> "nil", panic |-> FALSE, userPrompt |-> PromptHead \o diff]

\* config.DefaultConfig: the fields the program reads
DefaultMaxDiffSize == 4000
DefaultConfig == [APIKey |-> "", MaxDiffSize |-> DefaultMaxDiffSize]

\* config.Load; env.read is Ok, "notexist" or another failure of
\* os.ReadFile, env.parse the result of yaml.Unmarshal, env.file the
\* configuration the file holds, env.envKey the value of OPENAI_API_KEY and
\* env.save the result of Save.  Returns [cfg, err, calls].
Load(env) ==
    IF env.read # Ok
    THEN IF env.read = "notexist"
         THEN [cfg |-> DefaultConfig, err |-> "nil", calls |-> <<"Save">>]
         ELSE [cfg |-> DefaultConfig, err |-> "nil", calls |-> <<>>]
    ELSE IF env.parse # Ok
    THEN [cfg |-> DefaultConfig, err |-> env.parse, calls |-> <<>>]
    ELSE [cfg |-> IF env.file.APIKey = ""
                  THEN [env.file EXCEPT !.APIKey = env.envKey]
                  ELSE env.file,
          err |-> "nil", calls |-> <<>>]

\* config.EnsureConfig
EnsureConfig(env) ==
    LET l == Load(env)
    IN  IF l.err # "nil"
        THEN IF env.save # Ok
             THEN [cfg |-> DefaultConfig, err |-> env.save,
                   calls |-> l.calls \o <<"Save">>]
             ELSE [cfg |-> DefaultConfig, err |-> "nil", calls |-> l.calls \o <<"Save">>]
        ELSE l

\* main: the program exits when EnsureConfig returns an error, and runs the
\* menu otherwise
main(env) ==
    LET c == EnsureConfig(env)
    IN  [cfg |-> c.cfg, err |-> c.err, calls |-> c.calls,
         started |-> c.err = "nil"]

\* the results the external calls of a command can have
ReleaseEnvs == [TagAnnotated : Results, PushTags : Results]
PushEnvs ==
    [status : [HasStaged : BOOLEAN, HasUnstaged : BOOLEAN, HasUntracked : BOOLEAN],
     PushWithUpstream : Results]
PublishEnvs ==
    [user : BOOLEAN, AddAll : Results, status : [HasStaged : BOOLEAN],
     Commit : Results, Tag : Results, gh : Results]

\* strings.HasPrefix
HasPrefix(s, prefix) == Len(s) >= Len(prefix) /\ SubSeq(s, 1, Len(prefix)) = prefix

\* strings.ReplaceAll(s, old, new) for a non-empty old
RECURSIVE ReplaceAll(_, _, _)
ReplaceAll(s, old, new) ==
    IF s = <<>> THEN <<>>
    ELSE IF HasPrefix(s, old)
    THEN new \o ReplaceAll(SubSeq(s, Len(old) + 1, Len(s)), old, new)
    ELSE <<Head(s)>> \o ReplaceAll(Tail(s), old, new)

\* the backquote character, which a string of this language cannot hold
Backquote == "bq"

Fence == <<Backquote, Backquote, Backquote>>
MarkdownFence == Fence \o <<"m", "a", "r", "k", "d", "o", "w", "n">>

\* faulty variant of cleanMarkdown: the bare fence is removed first
cleanMarkdown_bareFirst(content) ==
    TrimSpace(ReplaceAll(ReplaceAll(content, Fence, <<>>), MarkdownFence, <<>>))

\* cleanMarkdown
cleanMarkdown(content) ==
    TrimSpace(ReplaceAll(ReplaceAll(content, MarkdownFence, <<>>), Fence, <<>>))

(***************************************************************************)
(* The results a command in flight can send back                           *)
(***************************************************************************)
Fails(prefix) == {actionCompleteMsg(FALSE, prefix \o e) : e \in Errs}

Outcomes(task) ==
    CASE task.cmd = "refreshStatus" -> {TextMsg("statusMsg", s) : s \in Snapshots}
      [] task.cmd = "AddAll" ->
           Fails("Failed to add: ") \cup {actionCompleteMsg(TRUE, "All files staged")}
      [] task.cmd = "Push" ->
           Fails("Push failed: ") \cup {actionCompleteMsg(TRUE, "Pushed to remote")}
      [] task.cmd = "Pull" ->
           Fails("Pull failed: ") \cup {actionCompleteMsg(TRUE, "Pulled from remote")}
      [] task.cmd = "Open" ->
           Fails("Not a GitHub repo: ") \cup Fails("Failed to open: ")
               \cup {actionCompleteMsg(TRUE, "Opened in browser")}
      [] task.cmd = "Lazygit" ->
           Fails("Lazygit error: ") \cup {actionCompleteMsg(TRUE, "")}
      [] task.cmd = "Branches" ->
           Fails("Failed to get branches: ") \cup {actionCompleteMsg(TRUE, "Branches: main")}
      [] task.cmd = "checkStatusAsync" ->
           {Msg("commitNoChangesMsg"), Msg("commitReadyMsg")}
               \cup (IF task.ty = "ai" THEN {ErrMsg("commitErrorMsg", e) : e \in Errs} ELSE {})
      [] task.cmd = "generateMessage" ->
           {ErrMsg("commitErrorMsg", e) : e \in Errs}
               \cup {SeqMsg("commitGeneratedMsg", g) : g \in Generated}
      [] task.cmd = "doCommit" ->
           {ErrMsg("commitErrorMsg", e) : e \in Errs} \cup {Msg("commitDoneMsg")}
      [] task.cmd = "doReset" ->
           {ErrMsg("resetErrorMsg", e) : e \in Errs} \cup {Msg("resetDoneMsg")}
      [] task.cmd = "doRollback" ->
           {ErrMsg("rollbackErrorMsg", e) : e \in Errs} \cup {Msg("rollbackDoneMsg")}
      [] task.cmd = "doRelease" ->
           {doRelease(NewReleaseModel, env).msg : env \in ReleaseEnvs}
      [] task.cmd = "checkRepo" ->
           {ErrMsg("publishErrorMsg", "failed to initialize git: " \o e) : e \in Errs}
               \cup {[Msg("publishRepoCheckedMsg") EXCEPT !.ok = r] : r \in BOOLEAN}
      [] task.cmd = "pushToRemote" ->
           {pushToRemote(NewPublishModel, env).msg : env \in PushEnvs}
      [] task.cmd = "doPublish" ->
           {doPublish(NewPublishModel, env).msg : env \in PublishEnvs}
      [] task.cmd = "return" -> {ReturnToMenuMsg(task.text, task.ty)}
      [] task.cmd = "quit" -> {Msg("QuitMsg")}

(***************************************************************************)
(* The menu controller.  Update and executeAction return                   *)
(* [m, cmds, tick, set, back]: the Model after the message, the commands   *)
(* returned, whether clearMessageAfter was among them, whether the handler *)
(* stored a non-empty status message, and whether it left the sub-flow.    *)
(***************************************************************************)
Result(m, c) == [m |-> m, cmds |-> c, tick |-> FALSE, set |-> FALSE, back |-> FALSE]

\* a direct action: loading is set and the command runs in the background
Direct(m, c) == Result([m EXCEPT !.loading = TRUE], {Task(c, FALSE)})

\* a sub-flow action: the sub-flow is created and its Init dispatched
Enter(m, sub) ==
    Result([m EXCEPT !.inSubView = TRUE, !.subModel = sub], InitCmds(sub))

\* Model.executeAction
executeAction(m, action) ==
    CASE action = ActionQuit -> Result([m EXCEPT !.quitting = TRUE], {Task("quit", FALSE)})
      [] action = ActionAdd -> Direct(m, "AddAll")
      [] action = ActionPush -> Direct(m, "Push")
      [] action = ActionPull -> Direct(m, "Pull")
      [] action = ActionReset -> Enter(m, NewResetModel)
      [] action = ActionCommit -> Enter(m, NewCommitModel(FALSE))
      [] action = ActionAICommit -> Enter(m, NewCommitModel(TRUE))
      [] action = ActionPublish -> Enter(m, NewPublishModel)
      [] action = ActionOpen -> Direct(m, "Open")
      [] action = ActionLazygit -> Result(m, {Task("Lazygit", FALSE)})
      [] action = ActionBranches -> Direct(m, "Branches")
      [] OTHER -> Result(m, {})

\* Model.Update, case tea.KeyMsg; sel is the action of the list's selected item
menuKey(m, k, sel) ==
    IF m.loading THEN Result(m, {})
    ELSE CASE k \in {"q", "ctrl+c"} ->
                Result([m EXCEPT !.quitting = TRUE], {Task("quit", FALSE)})
           [] k \in {"enter", " "} -> executeAction(m, sel)
           [] OTHER ->
                LET hit == {i \in 1..Len(items) : items[i].shortcut = k}
                IN  IF hit = {} THEN Result(m, {})
                    ELSE executeAction(m, items[CHOOSE i \in hit : \A j \in hit : i <= j].action)

\* faulty variant of the ReturnToMenuMsg handling: subModel is not reset
returnToMenu_keepsSubModel(m, msg) ==
    LET back == [m EXCEPT !.inSubView = FALSE]
        shown == IF msg.text # ""
                 THEN [back EXCEPT !.message = msg.text, !.msgType = msg.ty]
                 ELSE back
    IN  [m |-> shown, cmds |-> {Task("refreshStatus", FALSE)}, tick |-> TRUE,
         set |-> msg.text # "", back |-> TRUE]

\* Model.Update, the ReturnToMenuMsg seen while a sub-flow is active
returnToMenu(m, msg) ==
    LET back == [m EXCEPT !.inSubView = FALSE, !.subModel = Nil]
        shown == IF msg.text # ""
                 THEN [back EXCEPT !.message = msg.text, !.msgType = msg.ty]
                 ELSE back
    IN  [m |-> shown, cmds |-> {Task("refreshStatus", FALSE)}, tick |-> TRUE,
         set |-> msg.text # "", back |-> TRUE]

\* Model.Update, the messages handled by the menu itself
menuUpdate(m, msg, sel) ==
    CASE msg.t = "KeyMsg" -> menuKey(m, msg.text, sel)
      [] msg.t = "statusMsg" -> Result([m EXCEPT !.status = msg.text, !.loading = FALSE], {})
      [] msg.t = "actionCompleteMsg" ->
           [m |-> [m EXCEPT !.loading = FALSE, !.message = msg.text,
                            !.msgType = IF msg.ok THEN "success" ELSE "error"],
            cmds |-> {Task("refreshStatus", FALSE)}, tick |-> TRUE,
            set |-> msg.text # "", back |-> FALSE]
      [] msg.t = "clearMsgMsg" -> Result([m EXCEPT !.message = "", !.msgType = ""], {})
      [] msg.t = "WindowSizeMsg" ->
           Result([m EXCEPT !.width = msg.Width, !.height = msg.Height], {})
      [] OTHER -> Result(m, {})

\* faulty variant of Model.Update: a statusMsg is stored by the menu even
\* while a sub-flow is active
Update_storesStatus(m, msg, sel) ==
    IF m.inSubView /\ m.subModel # Nil
    THEN LET r == SubUpdate(m.subModel, msg)
         IN  IF msg.t = "ReturnToMenuMsg"
             THEN returnToMenu([m EXCEPT !.subModel = r.m], msg)
             ELSE Result([m EXCEPT !.subModel = r.m,
                                   !.status = IF msg.t = "statusMsg" THEN msg.text ELSE @],
                         r.cmds)
    ELSE menuUpdate(m, msg, sel)

\* Model.Update
Update(m, msg, sel) ==
    IF m.inSubView /\ m.subModel # Nil
    THEN LET r == SubUpdate(m.subModel, msg)
         IN  IF msg.t = "ReturnToMenuMsg"
             THEN returnToMenu([m EXCEPT !.subModel = r.m], msg)
             ELSE Result([m EXCEPT !.subModel = r.m], r.cmds)
    ELSE menuUpdate(m, msg, sel)

(***************************************************************************)
(* The event loop                                                          *)
(***************************************************************************)
\* the Model value held by the event loop
Menu ==
    [loading |-> loading, message |-> message, msgType |-> msgType,
     quitting |-> quitting, status |-> status, inSubView |-> inSubView,
     subModel |-> subModel]

\* the actions of the menu entries; the list's selected item is one of them
Actions == {items[i].action : i \in 1..Len(items)}

\* the entries the cursor can be on when k is pressed (the cursor decides
\* nothing unless the menu itself handles enter or space)
Selectable(k) ==
    IF k \in {"enter", " "} /\ ~(inSubView /\ subModel # Nil) /\ ~loading
    THEN Actions
    ELSE {ActionQuit}

\* history: the commands in flight no longer belong to the active sub-flow
Disown(bag) ==
    LET T == {[t EXCEPT !.own = FALSE] : t \in BagToSet(bag)}
    IN  [t \in T |-> CopiesIn(t, bag) + CopiesIn([t EXCEPT !.own = TRUE], bag)]

\* history: a timer is "cur" while the message stored with it is the latest
\* one stored, "old" once a later message was stored, and "none" when it was
\* set by a handler that stored no message
Retag(tms, r) ==
    IF ~r.tick THEN tms
    ELSE IF r.set THEN Append([i \in DOMAIN tms |-> "old"], "cur")
    ELSE Append(tms, "none")

\* the loop stores the Model a handler returned and starts its commands;
\* pend and tms are the commands and timers left after taking the message
Step(r, pend, tms) ==
    /\ Len(Retag(tms, r)) <= MaxTimers
    /\ loading' = r.m.loading
    /\ message' = r.m.message
    /\ msgType' = r.m.msgType
    /\ quitting' = r.m.quitting
    /\ status' = r.m.status
    /\ inSubView' = r.m.inSubView
    /\ subModel' = r.m.subModel
    /\ pending' = (IF r.back THEN Disown(pend) ELSE pend) (+) SetToBag(r.cmds)
    /\ BagCardinality(pending') <= MaxPending
    /\ timers' = Retag(tms, r)
    /\ exited' = exited
    /\ call' = call

Init ==
    /\ loading = FALSE
    /\ message = ""
    /\ msgType = ""
    /\ quitting = FALSE
    /\ status = "nil"
    /\ inSubView = FALSE
    /\ subModel = Nil
    /\ pending = SetToBag({Task("refreshStatus", FALSE)})
    /\ timers = <<>>
    /\ exited = FALSE
    /\ inputs = 0
    /\ call = NoCall

\* history: the user makes one more input
Input == inputs < MaxInputs /\ inputs' = inputs + 1

\* the user presses key k
KeyPress(k) ==
    /\ ~exited /\ Input
    /\ \E sel \in Selectable(k) : Step(Update(Menu, KeyMsg(k), sel), pending, timers)

\* the user types into the focused field of the commit form
Type(s) ==
    /\ ~exited /\ Input
    /\ inSubView /\ subModel.kind = "commit" /\ subModel.state = "commitStateInput"
    /\ s \in (IF subModel.inputFocused THEN Titles ELSE Bodies)
    /\ Step(Update(Menu, TypedMsg(s), ActionQuit), pending, timers)

\* the user completes the huh form of the active sub-flow
CompleteForm(ok, txt) ==
    /\ ~exited /\ Input
    /\ inSubView /\ subModel.form = "normal"
    /\ subModel.state \in {"resetStateConfirm", "rollbackStateConfirm",
                           "releaseStateForm", "publishStateForm"}
    /\ txt \in (IF subModel.kind = "release" THEN TagNames ELSE {""})
    /\ Step(Update(Menu, FormMsg(ok, txt), ActionQuit), pending, timers)

\* the event loop handles msg, the result of the command task
Handled(task, msg) ==
    /\ ~exited /\ UNCHANGED inputs
    /\ Step(Update(Menu, msg, ActionQuit), pending (-) SetToBag({task}), timers)

\* a command in flight finishes and its message is handled
Complete(task) ==
    /\ task.cmd # "quit"
    /\ \E msg \in Outcomes(task) : Handled(task, msg)

\* the oldest clearMessageAfter timer fires and its clearMsgMsg is handled
TimerFire ==
    /\ ~exited /\ UNCHANGED inputs
    /\ timers # <<>>
    /\ Step(Update(Menu, Msg("clearMsgMsg"), ActionQuit), pending, Tail(timers))

\* tea.Quit's message ends the event loop
Quit ==
    /\ ~exited
    /\ \E task \in BagToSet(pending) :
          /\ task.cmd = "quit"
          /\ pending' = pending (-) SetToBag({task})
    /\ exited' = TRUE
    /\ UNCHANGED <<loading, message, msgType, quitting, status, inSubView,
                   subModel, timers, inputs, call>>

Next ==
    \/ \E k \in Keys : KeyPress(k)
    \/ \E s \in Titles \cup Bodies : Type(s)
    \/ \E ok \in BOOLEAN, txt \in TagNames \cup {""} : CompleteForm(ok, txt)
    \/ \E task \in BagToSet(pending) : Complete(task)
    \/ TimerFire
    \/ Quit

Spec == Init /\ [][Next]_vars

(***************************************************************************)
(* The rollback and release flows are not reachable from the menu entries. *)
(* SpecFlows hosts them as the menu hosts the listed flows, so that their  *)
(* state machines can be checked with the others.                          *)
(***************************************************************************)
Host(sub) ==
    /\ ~exited /\ Input
    /\ ~inSubView /\ ~loading
    /\ Step(Enter(Menu, sub), pending, timers)

NextFlows ==
    \/ Next
    \/ Host(NewRollbackModel)
    \/ Host(NewReleaseModel)

SpecFlows == Init /\ [][NextFlows]_vars

(***************************************************************************)
(* The functions and commands on their own.  SpecCalls applies one of them *)
(* to an input drawn from a bounded set and records the input and what it  *)
(* returned in call.  The flows they are applied to are the ones the       *)
(* Update operators produce from the messages that lead there.             *)
(***************************************************************************)
\* the longest text typed, generated or replied
MaxText == 3
\* the most lines in the output of git status --porcelain
MaxLines == 2

\* the sequences over S of length at most n
Seqs(S, n) == UNION {[1..k -> S] : k \in 0..n}

\* the sub-flow after it has handled the messages msgs in turn
RECURSIVE After(_, _)
After(m, msgs) ==
    IF msgs = <<>> THEN m ELSE After(SubUpdate(m, Head(msgs)).m, Tail(msgs))

\* what the user can type into the title field (one line) and the body field
TitleTexts == Seqs({"a", " "}, MaxText)
BodyTexts == Seqs({"b", " ", NL}, MaxText)
\* the messages GenerateCommitMessage can return: any text, trimmed
GeneratedTexts == {TrimSpace(s) : s \in Seqs({"a", NL}, MaxText)} \ {<<>>}

\* the manual commit flow after the title and body were typed and submitted
Composed(title, body) ==
    After(NewCommitModel(FALSE),
          <<Msg("commitReadyMsg"), TypedMsg(title), KeyMsg("tab"), TypedMsg(body),
            KeyMsg("enter")>>)

\* the AI commit flow showing the generated message g
Proposed(g) ==
    After(NewCommitModel(TRUE), <<Msg("commitReadyMsg"), SeqMsg("commitGeneratedMsg", g)>>)

\* the commit flows at the confirmation step
Confirmations ==
    {m \in {Composed(t, b) : t \in TitleTexts, b \in BodyTexts}
             \cup {Proposed(g) : g \in GeneratedTexts} :
       m.state = "commitStateConfirm"}

\* the release flow working on the tag it was given
Releasing(tag) == After(NewReleaseModel, <<FormMsg(TRUE, tag)>>)

\* the publish flow pushing to the remote it found
Pushing == After(NewPublishModel, <<Msg("publishRepoCheckedMsg")>>)

\* the publish flow creating the repository after the form was completed and
\* confirmed
Publishing(addTag) ==
    After(NewPublishModel,
          <<[Msg("publishRepoCheckedMsg") EXCEPT !.ok = FALSE], FormMsg(addTag, ""),
            KeyMsg("enter")>>)

\* the index and worktree states of a status record
XY == {" ", "?", "M"}
\* the lines of the porcelain output: a record for the path f, or the empty
\* line after the last newline
Records == {<<x, y, " ", "f">> : x, y \in XY} \cup {<<>>}
Porcelains ==
    {[err |-> TRUE, lines |-> <<>>]}
        \cup {[err |-> FALSE, lines |-> l] : l \in Seqs(Records, MaxLines)}
\* what the ahead/behind query prints: nothing when it fails (no upstream)
Upstreams ==
    {[err |-> TRUE, out |-> <<>>], [err |-> FALSE, out |-> <<>>],
     [err |-> FALSE, out |-> <<"0", "\t", "0", NL>>],
     [err |-> FALSE, out |-> <<"2", "\t", "1", NL>>],
     [err |-> FALSE, out |-> <<"1", "0", "\t", "3", NL>>],
     [err |-> FALSE, out |-> <<"4", NL>>]}
StatusEnvs ==
    [isRepo : BOOLEAN, branch : {"", "main"}, remote : {RepoURL},
     porcelain : Porcelains, upstream : Upstreams]

\* the messages an AI reply can hold, and the reply that wraps one in a fence
Messages == Seqs({"x", " ", NL, Backquote}, MaxText)
Fences == {"markdown", "bare", "none"}
Reply(msg, fence) ==
    CASE fence = "markdown" -> MarkdownFence \o <<NL>> \o msg \o <<NL>> \o Fence
      [] fence = "bare" -> Fence \o <<NL>> \o msg \o <<NL>> \o Fence
      [] fence = "none" -> msg

\* the staged diffs, and the ai section of the configuration: max_diff_size
\* is an int, which the YAML file can set to any value
Diffs == Seqs({"d", NL}, MaxText)
AIConfigs == [APIKey : {"", "sk"}, MaxDiffSize : (0 - 1)..(MaxText + 1)]

\* the configuration file as the program finds it at startup
ConfigEnvs ==
    [read : Results \cup {"notexist"}, parse : Results,
     file : [APIKey : {"", "filekey"}, MaxDiffSize : {MaxText}],
     envKey : {"", "envkey"}, save : Results]

\* fn was applied to in and returned out
Examine(fn, in, out) ==
    /\ call' = [fn |-> fn, in |-> in, out |-> out]
    /\ UNCHANGED <<loading, message, msgType, quitting, status, inSubView,
                   subModel, pending, timers, exited, inputs>>

\* CommitModel.submitForm on the title and body typed
SubmitCall(title, body) ==
    /\ call = NoCall
    /\ LET m == Composed(title, body)
       IN  Examine("submitForm", [title |-> title, body |-> body],
                   [state |-> m.state, commitMsg |-> m.commitMsg])

\* the "e" key at the confirmation, then enter on the unchanged form
EditCall(m) ==
    /\ call = NoCall
    /\ LET e == After(m, <<KeyMsg("e")>>)
           r == After(e, <<KeyMsg("enter")>>)
       IN  Examine("edit", [useAI |-> m.useAI, commitMsg |-> m.commitMsg],
                   [title |-> e.textInput, body |-> e.textArea, state |-> r.state,
                    commitMsg |-> r.commitMsg])

\* ReleaseModel.doRelease, and ReleaseModel.Update on the message it sent
ReleaseCall(tag, env) ==
    /\ call = NoCall
    /\ LET m == Releasing(tag)
           r == doRelease(m, env)
           u == ReleaseUpdate(m, r.msg).m
       IN  Examine("doRelease", env,
                   [calls |-> r.calls, msg |-> r.msg, state |-> u.state, err |-> u.err])

\* PublishModel.pushToRemote
PushCall(env) ==
    /\ call = NoCall
    /\ LET r == pushToRemote(Pushing, env)
       IN  Examine("pushToRemote", env, [calls |-> r.calls, msg |-> r.msg])

\* PublishModel.doPublish
PublishCall(addTag, env) ==
    /\ call = NoCall
    /\ LET m == Publishing(addTag)
           r == doPublish(m, env)
       IN  Examine("doPublish", [addTag |-> m.addTag, env |-> env],
                   [calls |-> r.calls, msg |-> r.msg])

\* git.GetStatus
StatusCall(env) ==
    /\ call = NoCall
    /\ Examine("GetStatus", env, GetStatus(env))

\* cleanMarkdown on the trimmed reply, as generateOpenAICommit and
\* generateAnthropicCommit call it
CleanCall(msg, fence) ==
    /\ call = NoCall
    /\ Examine("cleanMarkdown", [msg |-> msg, fence |-> fence],
               cleanMarkdown(TrimSpace(Reply(msg, fence))))

\* ai.GenerateCommitMessage
PromptCall(diff, cfg) ==
    /\ call = NoCall
    /\ Examine("GenerateCommitMessage", [diff |-> diff, cfg |-> cfg],
               GenerateCommitMessage(diff, cfg))

\* the commit flows at the confirmation step, the AI flow showing what
\* generateOpenAICommit returns for a reply of the provider
Offered ==
    {m \in {Composed(t, b) : t \in TitleTexts, b \in BodyTexts}
             \cup {Proposed(cleanMarkdown(TrimSpace(Reply(msg, fence)))) :
                      msg \in Messages, fence \in Fences} :
       m.state = "commitStateConfirm"}

\* the "y" key at the confirmation
ConfirmCall(m) ==
    /\ call = NoCall
    /\ LET r == SubUpdate(m, KeyMsg("y"))
       IN  Examine("confirm", [useAI |-> m.useAI, commitMsg |-> m.commitMsg],
                   [state |-> r.m.state, commitMsg |-> r.m.commitMsg,
                    cmds |-> {t.cmd : t \in r.cmds}])

\* sub-flows the menu can be hosting
ActiveFlows ==
    {NewCommitModel(FALSE), NewCommitModel(TRUE), NewResetModel, NewRollbackModel,
     NewReleaseModel, NewPublishModel, Pushing, Publishing(TRUE),
     Composed(<<"a">>, <<"b">>)}
        \cup {Proposed(g) : g \in Generated} \cup {Releasing(tag) : tag \in TagNames}

\* the Model of the menu while it hosts the sub-flow sub: the status line is
\* empty or loaded, a message is shown or not, the terminal size is known
\* or not
Hosts ==
    {[loading |-> FALSE, message |-> shown.text, msgType |-> shown.ty,
      quitting |-> FALSE, status |-> st, inSubView |-> TRUE, subModel |-> sub,
      width |-> size.w, height |-> size.h] :
        shown \in {[text |-> "", ty |-> ""], [text |-> "Cancelled", ty |-> "info"]},
        st \in {"nil"} \cup Snapshots,
        size \in {[w |-> 0, h |-> 0], [w |-> 80, h |-> 24]},
        sub \in ActiveFlows}

\* the messages the event loop can deliver
Delivered ==
    {KeyMsg(k) : k \in Keys}
        \cup {TextMsg("statusMsg", st) : st \in Snapshots}
        \cup {actionCompleteMsg(TRUE, "Pushed to remote")} \cup Fails("Push failed: ")
        \cup {Msg("clearMsgMsg"), WindowSizeMsg(120, 40),
              ReturnToMenuMsg("", ""), ReturnToMenuMsg("Cancelled", "info")}

\* Model.Update on a message delivered while a sub-flow is active
ForwardCall(m, msg) ==
    /\ call = NoCall
    /\ Examine("Update", [m |-> m, msg |-> msg], Update(m, msg, ActionQuit).m)

\* main up to the start of the menu: config.EnsureConfig
ConfigCall(env) ==
    /\ call = NoCall
    /\ Examine("EnsureConfig", env, main(env))

NextCalls ==
    \/ \E title \in TitleTexts, body \in BodyTexts : SubmitCall(title, body)
    \/ \E m \in Confirmations : EditCall(m)
    \/ \E tag \in TagNames, env \in ReleaseEnvs : ReleaseCall(tag, env)
    \/ \E env \in PushEnvs : PushCall(env)
    \/ \E addTag \in BOOLEAN, env \in PublishEnvs : PublishCall(addTag, env)
    \/ \E env \in StatusEnvs : StatusCall(env)
    \/ \E msg \in Messages, fence \in Fences : CleanCall(msg, fence)
    \/ \E diff \in Diffs, cfg \in AIConfigs : PromptCall(diff, cfg)
    \/ \E env \in ConfigEnvs : ConfigCall(env)
    \/ \E m \in Offered : ConfirmCall(m)
    \/ \E m \in Hosts, msg \in Delivered : ForwardCall(m, msg)

SpecCalls == Init /\ [][NextCalls]_vars

(***************************************************************************)
(* Definitions used by the properties                                      *)
(***************************************************************************)
\* the number of commands in flight that satisfy Keep_(t)
Count(bag, Keep_(_)) ==
    LET T == {t \in BagToSet(bag) : Keep_(t)}
    IN  BagCardinality([t \in T |-> bag[t]])

IsReturn(t) == t.cmd = "return"
IsOwnReturn(t) == t.cmd = "return" /\ t.own
IsExternal(t) == t.cmd \in ExternalCmds
IsDirect(t) == t.cmd \in {"AddAll", "Push", "Pull", "Open", "Branches"}
IsWork(t) == t.cmd \in {"doCommit", "doReset", "doRollback", "doRelease",
                        "pushToRemote", "doPublish"}
IsOwnWork(t) == IsWork(t) /\ t.own

Active == inSubView /\ subModel # Nil

\* the command a flow kind runs in its Working state
WorkCmds(kind) ==
    CASE kind = "commit" -> {"doCommit"}
      [] kind = "reset" -> {"doReset"}
      [] kind = "rollback" -> {"doRollback"}
      [] kind = "release" -> {"doRelease"}
      [] kind = "publish" -> {"pushToRemote", "doPublish"}
      [] OTHER -> {}

DoneStates ==
    {"commitStateDone", "resetStateDone", "rollbackStateDone", "releaseStateDone",
     "publishStateDone"}
ErrorStates ==
    {"commitStateError", "resetStateError", "rollbackStateError", "releaseStateError",
     "publishStateError"}
\* Working, or generating the AI message
Busy(m) == Working(m) \/ m.state = "commitStateGenerating"

(***************************************************************************)
(* C1: in every reachable state inSubView is true exactly when subModel is *)
(* non-nil, and a sub-flow of another kind than the one held appears only  *)
(* in a step that starts with no sub-flow active.                          *)
(***************************************************************************)
C1_OneSubFlow ==
    /\ [](inSubView <=> subModel # Nil)
    /\ [][(subModel' # Nil /\ subModel'.kind # subModel.kind)
            => (~inSubView /\ subModel = Nil)]_vars

\* a sub-flow was created after an earlier one had returned with a message
C1_Witness == inSubView /\ subModel.kind = "reset" /\ message = "Cancelled"

(***************************************************************************)
(* C2: a sub-flow activation hands control back exactly once: the active   *)
(* activation never has two ReturnToMenuMsg in flight, and no              *)
(* ReturnToMenuMsg is left in flight by an activation that has ended.      *)
(***************************************************************************)
C2_HandBackOnce ==
    /\ Count(pending, IsReturn) <= 1
    /\ Count(pending, IsReturn) = Count(pending, IsOwnReturn)

(***************************************************************************)
(* C3: when the command of a flow in Working completes successfully, the   *)
(* flow enters its Done state and emits a ReturnToMenuMsg of type success. *)
(***************************************************************************)
C3_DoneReturns ==
    [][\A task \in BagToSet(pending) : \A msg \in Outcomes(task) :
          (/\ Active /\ Working(subModel)
           /\ task.own /\ task.cmd \in WorkCmds(subModel.kind)
           /\ msg.ok
           /\ Handled(task, msg))
          => (/\ subModel'.state \in DoneStates
              /\ \E t \in BagToSet(pending') : IsOwnReturn(t) /\ t.ty = "success")]_vars

(***************************************************************************)
(* C4: when the command of a flow in Working fails, the flow enters its    *)
(* Error state storing the failure and emits no ReturnToMenuMsg, and a     *)
(* flow in its Error state stays there, emitting nothing, in every step    *)
(* that is not an input of the user.                                       *)
(***************************************************************************)
C4_ErrorStays ==
    /\ [][\A task \in BagToSet(pending) : \A msg \in Outcomes(task) :
            (/\ Active /\ Working(subModel)
             /\ task.own /\ task.cmd \in WorkCmds(subModel.kind)
             /\ ~msg.ok
             /\ Handled(task, msg))
            => (/\ subModel'.state \in ErrorStates
                /\ subModel'.err = msg.text
                /\ Count(pending', IsReturn) = Count(pending, IsReturn))]_vars
    /\ [][(Active /\ subModel.state \in ErrorStates /\ inputs' = inputs)
            => (/\ subModel' = subModel
                /\ Count(pending', IsReturn) = Count(pending, IsReturn))]_vars

(***************************************************************************)
(* C5: in the Error state of a sub-flow, enter and escape each make the    *)
(* flow emit a ReturnToMenuMsg of type error whose message is built from   *)
(* the stored failure detail.                                              *)
(***************************************************************************)
C5_ErrorAcknowledged ==
    [][\A k \in {"enter", "esc"} :
          (Active /\ subModel.state \in ErrorStates /\ KeyPress(k))
          => \E t \in BagToSet(pending') :
                /\ IsOwnReturn(t) /\ t.ty = "error"
                /\ t.text \in {"Error: " \o subModel.err, subModel.err}
                /\ CopiesIn(t, pending') = CopiesIn(t, pending) + 1]_vars

(***************************************************************************)
(* C6: a step that takes a sub-flow into Working dispatches exactly one    *)
(* underlying command, and a key pressed while the flow is in Working      *)
(* dispatches none.                                                        *)
(***************************************************************************)
C6_DispatchOnce ==
    /\ [][(Active /\ ~Working(subModel) /\ inSubView' /\ Working(subModel'))
            => (/\ Count(pending', IsOwnWork) = Count(pending, IsOwnWork) + 1
                /\ \E t \in BagToSet(pending') :
                      /\ t.own /\ t.cmd \in WorkCmds(subModel'.kind)
                      /\ CopiesIn(t, pending') = CopiesIn(t, pending) + 1)]_vars
    /\ [][\A k \in Keys :
            (Active /\ Working(subModel) /\ KeyPress(k))
            => Count(pending', IsWork) = Count(pending, IsWork)]_vars

\* a flow is in Working with its one command in flight, and a key pressed
\* meanwhile (escape) has been handled
C6_Witness ==
    /\ Active /\ Working(subModel)
    /\ Count(pending, IsOwnWork) = 1
    /\ Count(pending, IsOwnReturn) = 1

(***************************************************************************)
(* C7: while the active sub-flow is in a Working state (generating,        *)
(* committing, resetting, rolling back, releasing, publishing), escape and *)
(* ctrl+c emit no ReturnToMenuMsg, and the menu keeps delegating to the    *)
(* sub-flow: no step from such a state leaves it.                          *)
(***************************************************************************)
C7_NoLeaveWhileWorking ==
    /\ [][\A k \in {"esc", "ctrl+c"} :
            (Active /\ Busy(subModel) /\ KeyPress(k))
            => Count(pending', IsReturn) = Count(pending, IsReturn)]_vars
    /\ [][(Active /\ Busy(subModel)) => inSubView']_vars

(***************************************************************************)
(* C8: at most one external command (git, gh, browser, AI) is in flight.   *)
(***************************************************************************)
C8_OneTaskInFlight == Count(pending, IsExternal) <= 1

(***************************************************************************)
(* C9: while a direct action (stage-all, push, pull, open, branches) is in *)
(* flight, loading is true.                                                *)
(***************************************************************************)
C9_LoadingWhileDirect == Count(pending, IsDirect) > 0 => loading

(***************************************************************************)
(* C10: the timer of an earlier status message never clears a message      *)
(* that was stored later.                                                  *)
(***************************************************************************)
C10_NoStaleClear ==
    [][~(/\ timers # <<>> /\ Head(timers) = "old" /\ timers' = Tail(timers)
         /\ message # "" /\ message' = "")]_vars

(***************************************************************************)
(* C11: the delivery of the expiry timer that was scheduled with the       *)
(* status message the menu holds clears it: after the step message and     *)
(* msgType are empty.                                                      *)
(***************************************************************************)
C11_ExpiryClears ==
    [][(/\ timers # <<>> /\ Head(timers) = "cur" /\ timers' = Tail(timers)
        /\ message # "")
       => (message' = "" /\ msgType' = "")]_vars

(***************************************************************************)
(* C12: after the step in which the menu, delegating to a sub-flow,        *)
(* handles a ReturnToMenuMsg, message and msgType are the ones the return  *)
(* carried; a return that carries no message leaves both empty.            *)
(***************************************************************************)
C12_ReturnSetsMessage ==
    [][\A task \in BagToSet(pending) :
          (/\ Active /\ task.cmd = "return"
           /\ Handled(task, ReturnToMenuMsg(task.text, task.ty)))
          => (message' = task.text /\ msgType' = task.ty)]_vars

(***************************************************************************)
(* C13: the step in which the menu handles a ReturnToMenuMsg (delegating)  *)
(* or an actionCompleteMsg (not delegating) dispatches one status refresh, *)
(* and the results of the refreshes replace the snapshot: whenever a clear *)
(* timer is outstanding (its handler dispatched a refresh with it) and no  *)
(* refresh is in flight any more, the menu holds a snapshot.               *)
(***************************************************************************)
IsRefresh(t) == t.cmd = "refreshStatus"

C13_RefreshReplaces ==
    /\ [][\A task \in BagToSet(pending) : \A msg \in Outcomes(task) :
            (/\ \/ Active /\ task.cmd = "return"
                \/ ~Active /\ msg.t = "actionCompleteMsg"
             /\ Handled(task, msg))
            => Count(pending', IsRefresh) = Count(pending, IsRefresh) + 1]_vars
    /\ []((timers # <<>> /\ Count(pending, IsRefresh) = 0) => status \in Snapshots)

(***************************************************************************)
(* C14: pressing q or ctrl+c while no sub-flow is active, whether or not a *)
(* direct action is loading, sets quitting and dispatches tea.Quit; while  *)
(* a sub-flow is active the same keys neither set quitting nor dispatch    *)
(* tea.Quit.                                                               *)
(***************************************************************************)
IsQuit(t) == t.cmd = "quit"

C14_QuitKeyWins ==
    [][\A k \in {"q", "ctrl+c"} :
          KeyPress(k)
          => IF Active
             THEN /\ quitting' = quitting
                  /\ Count(pending', IsQuit) = Count(pending, IsQuit)
             ELSE /\ quitting'
                  /\ Count(pending', IsQuit) = Count(pending, IsQuit) + 1]_vars

(***************************************************************************)
(* C15: the menu is in exactly one of the modes idle, delegating, loading  *)
(* and quitting: loading and inSubView are never both true, and quitting   *)
(* is never true together with loading or inSubView.                       *)
(***************************************************************************)
C15_OneMode ==
    /\ ~(loading /\ inSubView)
    /\ quitting => (~loading /\ ~inSubView)

(***************************************************************************)
(* C16: in the reset, rollback, release and commit flows, answering no at  *)
(* the confirmation emits a ReturnToMenuMsg of type info, and from then on *)
(* the activation dispatches none of the flow's underlying commands.       *)
(***************************************************************************)
\* the user has answered no at the confirmation of the active sub-flow
Declined ==
    /\ Active
    /\ \/ /\ subModel.kind \in {"reset", "rollback", "release"}
          /\ subModel.form = "completed" /\ ~subModel.confirmed
       \/ /\ subModel.kind = "commit"
          /\ \E t \in BagToSet(pending) : IsOwnReturn(t) /\ t.text = "Commit cancelled"

\* the step in which the user answers no
AnswerNo ==
    \/ /\ Active /\ subModel.kind \in {"reset", "rollback", "release"}
       /\ \E txt \in TagNames \cup {""} : CompleteForm(FALSE, txt)
    \/ /\ Active /\ subModel.kind = "commit" /\ subModel.state = "commitStateConfirm"
       /\ KeyPress("n")

C16_NoMeansNo ==
    /\ [][AnswerNo
            => \E t \in BagToSet(pending') :
                  /\ IsOwnReturn(t) /\ t.ty = "info"
                  /\ CopiesIn(t, pending') = CopiesIn(t, pending) + 1]_vars
    /\ [][(Declined /\ inSubView')
            => Count(pending', IsOwnWork) <= Count(pending, IsOwnWork)]_vars

(***************************************************************************)
(* C17 as stated: escape pressed before Working in the reset, rollback,    *)
(* release or publish flow emits a ReturnToMenuMsg of type info with the   *)
(* message "<flow> cancelled", and escape pressed in the commit flow emits *)
(* a ReturnToMenuMsg with no message.                                      *)
(***************************************************************************)
\* the states of the four flows before Working
NotStarted(m) ==
    m.state \in {"resetStateConfirm", "rollbackStateConfirm", "releaseStateForm",
                 "publishStateInit", "publishStateForm", "publishStateConfirm"}

CancelText(kind) ==
    CASE kind = "reset" -> "Reset cancelled"
      [] kind = "rollback" -> "Rollback cancelled"
      [] kind = "release" -> "Release cancelled"
      [] kind = "publish" -> "Publish cancelled"
      [] OTHER -> ""

\* escape is pressed in the commit flow, or before Working in another flow
EscapePressed ==
    /\ Active
    /\ subModel.kind = "commit" \/ NotStarted(subModel)
    /\ KeyPress("esc")

C17_EscapeSurfacesCancelled ==
    [][EscapePressed
         => \E t \in BagToSet(pending') :
               /\ IsOwnReturn(t)
               /\ CopiesIn(t, pending') = CopiesIn(t, pending) + 1
               /\ IF subModel.kind = "commit"
                  THEN t.text = ""
                  ELSE t.ty = "info" /\ t.text = CancelText(subModel.kind)]_vars

(***************************************************************************)
(* C17 amended: escape pressed before Working in the reset, rollback,      *)
(* release or publish flow emits a ReturnToMenuMsg with empty message and  *)
(* type (a silent cancel), and escape pressed in the commit flow emits a   *)
(* ReturnToMenuMsg with message "Cancelled" and type info.                 *)
(***************************************************************************)
C17_EscapeCancels ==
    [][EscapePressed
         => \E t \in BagToSet(pending') :
               /\ IsOwnReturn(t)
               /\ CopiesIn(t, pending') = CopiesIn(t, pending) + 1
               /\ IF subModel.kind = "commit"
                  THEN t.text = "Cancelled" /\ t.ty = "info"
                  ELSE t.text = "" /\ t.ty = ""]_vars

\* escape in a commit flow has surfaced "Cancelled" in the menu, and escape
\* pressed in the reset flow opened afterwards has emitted a silent return
C17_Witness ==
    /\ message = "Cancelled" /\ msgType = "info"
    /\ Active /\ subModel.kind = "reset" /\ NotStarted(subModel)
    /\ \E t \in BagToSet(pending) : IsOwnReturn(t) /\ t.text = "" /\ t.ty = ""

(***************************************************************************)
(* C18: in the AI-assisted commit flow, the step that handles the          *)
(* commitNoChangesMsg of the activation's staged-changes check takes the   *)
(* flow to the no-changes display and dispatches no generation request,    *)
(* and no later step of the activation dispatches one.                     *)
(***************************************************************************)
IsGenerate(t) == t.cmd = "generateMessage"
IsOwnCheck(t) == t.cmd = "checkStatusAsync" /\ t.own

\* the active sub-flow is a commit flow
InCommit == Active /\ subModel.kind = "commit"

C18_NoChangesNoGeneration ==
    /\ [][\A task \in BagToSet(pending) :
            (/\ InCommit /\ subModel.useAI
             /\ task.cmd = "checkStatusAsync" /\ task.own
             /\ Handled(task, Msg("commitNoChangesMsg")))
            => (/\ subModel'.state = "commitStateNoChanges"
                /\ Count(pending', IsGenerate) = Count(pending, IsGenerate))]_vars
    /\ [][(/\ InCommit /\ subModel.useAI
           /\ subModel.state = "commitStateNoChanges"
           /\ Count(pending, IsOwnCheck) = 0 /\ inSubView')
          => Count(pending', IsGenerate) <= Count(pending, IsGenerate)]_vars

(***************************************************************************)
(* C19: in the commit flow a step dispatches git commit only if the        *)
(* activation's staged-changes check has completed and reported staged     *)
(* changes: the check is no longer in flight and ready is set.             *)
(***************************************************************************)
IsDoCommit(t) == t.cmd = "doCommit"

C19_CommitAfterCheck ==
    [][(InCommit /\ Count(pending', IsDoCommit) > Count(pending, IsDoCommit))
         => (subModel.ready /\ Count(pending, IsOwnCheck) = 0)]_vars

(***************************************************************************)
(* C20: pressing enter in the input state of the manual commit form with   *)
(* an empty or whitespace-only title changes nothing (the flow, its        *)
(* commitMsg and the commands in flight are as before), and a step in      *)
(* which enter takes the form to the confirmation has a title that is not  *)
(* empty after trimming, with which commitMsg starts.                      *)
(***************************************************************************)
\* enter is pressed in the input state of the manual commit form
SubmitPressed ==
    /\ InCommit /\ ~subModel.useAI /\ subModel.state = "commitStateInput"
    /\ KeyPress("enter")

C20_EmptyTitleRejected ==
    /\ [][(SubmitPressed /\ TrimSpace(subModel.textInput) = <<>>)
            => (subModel' = subModel /\ pending' = pending)]_vars
    /\ [][(SubmitPressed /\ subModel'.state = "commitStateConfirm")
            => LET title == TrimSpace(subModel.textInput)
               IN  /\ title # <<>>
                   /\ Len(subModel'.commitMsg) >= Len(title)
                   /\ SubSeq(subModel'.commitMsg, 1, Len(title)) = title]_vars

\* the manual form holds a whitespace-only title after three inputs (open,
\* type, enter) and is still in the input state with nothing dispatched
C20_Witness ==
    /\ InCommit /\ ~subModel.useAI /\ subModel.state = "commitStateInput"
    /\ subModel.textInput = <<" ">> /\ subModel.inputFocused
    /\ subModel.commitMsg = <<>>
    /\ inputs = 3

(***************************************************************************)
(* C21: for every title and body typed, the commit message composed on     *)
(* submitting is the trimmed title, a blank line and the trimmed body when *)
(* the body holds more than white space, and exactly the trimmed title,    *)
(* with nothing after it, when it does not.                                *)
(***************************************************************************)
C21_ComposedMessage ==
    call.fn = "submitForm" =>
        LET title == TrimSpace(call.in.title)
            body == TrimSpace(call.in.body)
        IN  title # <<>> =>
              /\ call.out.state = "commitStateConfirm"
              /\ IF body = <<>>
                 THEN call.out.commitMsg = title
                 ELSE /\ SplitBlank(call.out.commitMsg) = <<title, body>>
                      /\ Len(call.out.commitMsg) = Len(title) + 2 + Len(body)

\* a padded title and a padded body were submitted and composed
C21_Witness ==
    /\ call.fn = "submitForm"
    /\ call.in.title = <<" ", "a", " ">>
    /\ call.in.body = <<NL, "b", " ">>
    /\ call.out.commitMsg = <<"a", NL, NL, "b">>

(***************************************************************************)
(* C22: for every commit message shown at the confirmation, composed by    *)
(* the user or generated, the edit key fills the title field with the text *)
(* before the first blank line and the body field with the text after it,  *)
(* so that submitting the unchanged form composes the same message again.  *)
(***************************************************************************)
C22_EditRoundTrip ==
    call.fn = "edit" =>
        LET parts == SplitBlank(call.in.commitMsg)
        IN  /\ call.out.title = parts[1]
            /\ Len(parts) > 1 => call.out.body = parts[2]
            /\ call.out.state = "commitStateConfirm"
            /\ call.out.commitMsg = call.in.commitMsg

\* the external call f is among calls
Called(calls, f) == \E i \in DOMAIN calls : calls[i] = f

\* every call of b among calls comes after a call of a
Precedes(calls, a, b) ==
    \A j \in DOMAIN calls : calls[j] = b => \E i \in 1..(j - 1) : calls[i] = a

(***************************************************************************)
(* C23: the release command pushes the tags only after the tag was         *)
(* created; a failure to create the tag and a failure to push the tags     *)
(* surface different errors; and after either the flow is in its error     *)
(* state, not done.                                                        *)
(***************************************************************************)
C23_TagThenPush ==
    call.fn = "doRelease" =>
        /\ Called(call.out.calls, "PushTags") =>
              /\ call.in.TagAnnotated = Ok
              /\ Precedes(call.out.calls, "TagAnnotated", "PushTags")
        /\ (call.in.TagAnnotated # Ok \/ call.in.PushTags # Ok) =>
              /\ call.out.state = "releaseStateError"
              /\ call.out.err = call.out.msg.text
        /\ call.in.TagAnnotated # Ok =>
              \A tag \in TagNames, env \in ReleaseEnvs :
                  env.TagAnnotated = Ok =>
                      doRelease(Releasing(tag), env).msg.text # call.out.err

\* the tag was created, the push failed and the flow shows the error
C23_Witness ==
    /\ call.fn = "doRelease"
    /\ call.in.TagAnnotated = Ok
    /\ call.in.PushTags # Ok
    /\ call.out.calls = <<"TagAnnotated", "PushTags">>
    /\ call.out.state = "releaseStateError"

\* the active sub-flow is a publish flow
InPublish == Active /\ subModel.kind = "publish"

IsPush(t) == t.cmd = "pushToRemote"
IsOwnPush(t) == t.cmd = "pushToRemote" /\ t.own

(***************************************************************************)
(* C24: a publish flow that found the origin remote is never in its form   *)
(* or confirmation state: the step that handles the repository check       *)
(* reporting the remote takes the flow from its initial state straight to  *)
(* Working, builds no form and dispatches the stage, commit-if-needed and  *)
(* push command (pushToRemote), and while the flow holds that the remote   *)
(* exists it is working, done or failed.                                   *)
(***************************************************************************)
C24_RemoteSkipsForm ==
    /\ [][\A task \in BagToSet(pending) :
            (/\ InPublish /\ subModel.state = "publishStateInit"
             /\ task.cmd = "checkRepo" /\ task.own
             /\ Handled(task, Msg("publishRepoCheckedMsg")))
            => (/\ subModel'.state = "publishStateWorking"
                /\ subModel'.hasRemote
                /\ subModel'.form = "nil"
                /\ Count(pending', IsOwnPush) = Count(pending, IsOwnPush) + 1)]_vars
    /\ []((InPublish /\ subModel.hasRemote)
            => subModel.state \in {"publishStateWorking", "publishStateDone",
                                   "publishStateError"})

\* the check found the remote: the flow is working with its push in flight
\* and never built a form
C24_Witness ==
    /\ InPublish /\ subModel.hasRemote
    /\ subModel.state = "publishStateWorking"
    /\ subModel.form = "nil"
    /\ Count(pending, IsOwnPush) = 1

IsDoPublish(t) == t.cmd = "doPublish"

(***************************************************************************)
(* C25: the command that stages, commits, tags and creates the repository  *)
(* (doPublish) is dispatched only by a publish flow that found no remote,  *)
(* from its confirmation state with the form completed; and the            *)
(* confirmation state is entered only from the form state, in the step     *)
(* that completes the form.                                                *)
(***************************************************************************)
C25_FormBeforeCommands ==
    /\ [][Count(pending', IsDoPublish) > Count(pending, IsDoPublish)
            => (/\ InPublish /\ ~subModel.hasRemote
                /\ subModel.state = "publishStateConfirm"
                /\ subModel.form = "completed")]_vars
    /\ [][(/\ inSubView' /\ subModel'.kind = "publish"
           /\ subModel'.state = "publishStateConfirm"
           /\ ~(InPublish /\ subModel.state = "publishStateConfirm"))
            => (/\ InPublish /\ ~subModel.hasRemote
                /\ subModel.state = "publishStateForm"
                /\ subModel.form = "normal"
                /\ subModel'.form = "completed")]_vars

\* no remote was found, the form was completed and confirmed, and the
\* command is in flight
C25_Witness ==
    /\ InPublish /\ ~subModel.hasRemote
    /\ subModel.state = "publishStateWorking"
    /\ subModel.form = "completed"
    /\ Count(pending, IsDoPublish) = 1

(***************************************************************************)
(* C26: with an existing remote the publish command stages and commits     *)
(* every pending change, be it staged, modified or untracked, with the     *)
(* message "Update" before it pushes with upstream tracking, and when      *)
(* nothing is pending it pushes without staging or committing.             *)
(***************************************************************************)
C26_CommitsEveryPending ==
    call.fn = "pushToRemote" =>
        LET st == call.in.status
            calls == call.out.calls
        IN  /\ Called(calls, "PushWithUpstream")
            /\ (st.HasStaged \/ st.HasUnstaged \/ st.HasUntracked) =>
                  /\ Called(calls, "AddAll") /\ Called(calls, "Commit(Update)")
                  /\ Precedes(calls, "AddAll", "Commit(Update)")
                  /\ Precedes(calls, "Commit(Update)", "PushWithUpstream")
            /\ ~(st.HasStaged \/ st.HasUnstaged \/ st.HasUntracked) =>
                  ~Called(calls, "AddAll") /\ ~Called(calls, "Commit(Update)")

(***************************************************************************)
(* C27: when the user opted for a version tag in the publish form and the  *)
(* staging and the commit did not fail, the publish command creates a tag  *)
(* after the commit and before it creates the repository, and it goes on   *)
(* to create the repository whether or not the tag could be created.       *)
(***************************************************************************)
C27_TagWhenOpted ==
    call.fn = "doPublish" =>
        LET env == call.in.env
            calls == call.out.calls
        IN  (/\ call.in.addTag
             /\ env.AddAll = Ok
             /\ (env.status.HasStaged => env.Commit = Ok)) =>
                /\ Called(calls, "Tag")
                /\ Precedes(calls, "Tag", "gh repo create")
                /\ env.status.HasStaged => Precedes(calls, "Commit(commitMsg)", "Tag")
                /\ Called(calls, "gh repo create")

\* a line of the porcelain output that holds a record
IsRecord(line) == Len(line) >= 3
\* the index state is neither space nor ?
IndexChanged(line) == line[1] \notin {" ", "?"}
\* the worktree state is neither space nor ?
WorktreeChanged(line) == line[2] \notin {" ", "?"}
\* both states are ?
BothUnknown(line) == line[1] = "?" /\ line[2] = "?"
\* the paths of the records recs, in their order
Paths(recs) == [i \in 1..Len(recs) |-> SubSeq(recs[i], 4, Len(recs[i]))]

(***************************************************************************)
(* C28: the status read lists the path of a record as staged exactly when  *)
(* its index state is neither space nor ?, as modified exactly when its    *)
(* worktree state is neither space nor ?, and as untracked exactly when    *)
(* both are ?; so a record with both ? is untracked only, and a record     *)
(* whose two states are both changed is listed as staged and as modified.  *)
(***************************************************************************)
C28_Classification ==
    (call.fn = "GetStatus" /\ call.in.isRepo /\ ~call.in.porcelain.err) =>
        LET recs == SelectSeq(call.in.porcelain.lines, IsRecord)
            st == call.out
        IN  /\ st.StagedFiles = Paths(SelectSeq(recs, IndexChanged))
            /\ st.ModifiedFiles = Paths(SelectSeq(recs, WorktreeChanged))
            /\ st.UntrackedFiles = Paths(SelectSeq(recs, BothUnknown))
            /\ st.HasStaged <=> st.StagedFiles # <<>>
            /\ st.HasUnstaged <=> st.ModifiedFiles # <<>>
            /\ st.HasUntracked <=> st.UntrackedFiles # <<>>

\* a status of two records: one staged and modified at once, one untracked
C28_Witness ==
    /\ call.fn = "GetStatus"
    /\ call.in.porcelain.lines = <<(<<"M", "M", " ", "f">>), (<<"?", "?", " ", "f">>)>>
    /\ call.out.StagedFiles = <<(<<"f">>)>>
    /\ call.out.ModifiedFiles = <<(<<"f">>)>>
    /\ call.out.UntrackedFiles = <<(<<"f">>)>>

\* the fields of a status other than the ahead and behind counts
Rest(st) == [st EXCEPT !.Ahead = 0, !.Behind = 0]

(***************************************************************************)
(* C29: when the ahead/behind query fails or prints nothing (no upstream   *)
(* is configured), the status read returns no error, ahead and behind are  *)
(* both 0, and the branch and the classification of the files are what     *)
(* they are with any other answer of the query.                            *)
(***************************************************************************)
C29_NoUpstream ==
    (/\ call.fn = "GetStatus"
     /\ (call.in.upstream.err \/ call.in.upstream.out = <<>>)) =>
        /\ call.out.err = "nil"
        /\ call.out.Ahead = 0 /\ call.out.Behind = 0
        /\ call.out.Branch = (IF call.in.isRepo THEN call.in.branch ELSE "")
        /\ \A u \in Upstreams :
              Rest(GetStatus([call.in EXCEPT !.upstream = u])) = Rest(call.out)

\* the query failed in a repository on branch main with a staged and
\* modified path: the counts are 0 and the rest is reported
C29_Witness ==
    /\ call.fn = "GetStatus"
    /\ call.in.isRepo /\ call.in.upstream.err
    /\ call.in.branch = "main"
    /\ call.in.porcelain.lines = <<(<<"M", "M", " ", "f">>)>>
    /\ call.out.Ahead = 0 /\ call.out.Behind = 0
    /\ call.out.Branch = "main"
    /\ call.out.HasStaged /\ call.out.HasUnstaged

\* the text s holds a code fence
HasFence(s) == \E i \in 1..(Len(s) - 2) : SubSeq(s, i, i + 2) = Fence

(***************************************************************************)
(* C30: a reply that is a message wrapped in a markdown-tagged fence or in *)
(* a bare fence, the message itself holding no fence, is normalized to     *)
(* exactly the message without its leading and trailing white space: the   *)
(* result holds no fence and neither starts nor ends with white space.     *)
(***************************************************************************)
C30_FenceStripped ==
    (/\ call.fn = "cleanMarkdown"
     /\ call.in.fence \in {"markdown", "bare"}
     /\ ~HasFence(call.in.msg)) =>
        /\ call.out = TrimSpace(call.in.msg)
        /\ ~HasFence(call.out)
        /\ call.out # <<>> => ~IsSpace(Head(call.out)) /\ ~IsSpace(call.out[Len(call.out)])

\* a padded message in a markdown-tagged fence came out bare and trimmed
C30_Witness ==
    /\ call.fn = "cleanMarkdown"
    /\ call.in.fence = "markdown"
    /\ call.in.msg = <<" ", "x", NL>>
    /\ call.out = <<"x">>

(***************************************************************************)
(* C31: for every diff and every value of max_diff_size, the prompt built  *)
(* holds the diff unchanged when its length is at most max_diff_size, and  *)
(* otherwise exactly its first max_diff_size bytes followed by the         *)
(* truncation marker.                                                      *)
(***************************************************************************)
C31_DiffTruncated ==
    (call.fn = "GenerateCommitMessage" /\ call.in.cfg.APIKey # "") =>
        LET diff == call.in.diff
            max == call.in.cfg.MaxDiffSize
        IN  /\ ~call.out.panic
            /\ call.out.err = "nil"
            /\ call.out.userPrompt =
                  PromptHead \o (IF Len(diff) <= max THEN diff
                                 ELSE SubSeq(diff, 1, max) \o TruncationMarker)

(***************************************************************************)
(* C32: whenever the configuration file cannot be read or cannot be        *)
(* parsed, EnsureConfig returns the default configuration and no error,    *)
(* and the program starts.                                                 *)
(***************************************************************************)
C32_FallBackToDefaults ==
    (/\ call.fn = "EnsureConfig"
     /\ \/ call.in.read \notin {Ok, "notexist"}
        \/ call.in.read = Ok /\ call.in.parse # Ok) =>
        /\ call.out.cfg = DefaultConfig
        /\ call.out.err = "nil"
        /\ call.out.started

(***************************************************************************)
(* C33: whenever the configuration loaded has a blank API key, the file    *)
(* being missing (and created with the defaults) or present with an empty  *)
(* key, the API key of the configuration returned is the value of the      *)
(* environment variable.                                                   *)
(***************************************************************************)
C33_KeyFromEnvironment ==
    (/\ call.fn = "EnsureConfig"
     /\ \/ call.in.read = "notexist"
        \/ call.in.read = Ok /\ call.in.parse = Ok /\ call.in.file.APIKey = "") =>
        call.out.cfg.APIKey = call.in.envKey

(***************************************************************************)
(* C34: the completion of a command dispatched by a sub-flow activation    *)
(* that has ended changes nothing in a sub-flow started afterwards: the    *)
(* step that handles it never takes the active sub-flow into a Done or     *)
(* Error state and never makes it emit a ReturnToMenuMsg.                  *)
(***************************************************************************)
\* a command dispatched by a sub-flow
IsFlowCmd(t) ==
    IsWork(t) \/ t.cmd \in {"checkStatusAsync", "generateMessage", "checkRepo"}

C34_StaleCompletionIgnored ==
    [][\A task \in BagToSet(pending) : \A msg \in Outcomes(task) :
          (/\ Active /\ IsFlowCmd(task) /\ ~task.own
           /\ Handled(task, msg))
          => (/\ subModel'.state \in DoneStates \cup ErrorStates
                    => subModel'.state = subModel.state
              /\ Count(pending', IsReturn) = Count(pending, IsReturn))]_vars

(***************************************************************************)
(* C35: a ReturnToMenuMsg emitted by a sub-flow activation that has ended  *)
(* never closes a sub-flow started afterwards: the step that handles it    *)
(* leaves the active sub-flow in place.                                    *)
(***************************************************************************)
C35_LateReturnIgnored ==
    [][\A task \in BagToSet(pending) :
          (/\ Active /\ IsReturn(task) /\ ~task.own
           /\ Handled(task, ReturnToMenuMsg(task.text, task.ty)))
          => (inSubView' /\ subModel' # Nil)]_vars

(***************************************************************************)
(* C36: in the commit flow, the step that handles a commitReadyMsg or a    *)
(* commitNoChangesMsg while the flow is in the confirmation or committing  *)
(* state leaves the state as it is, and enter pressed in the input form    *)
(* of an AI flow whose staged-changes check is still in flight does not    *)
(* take the flow to the confirmation.                                      *)
(***************************************************************************)
C36_CheckAppliedWhileWaiting ==
    /\ [][\A task \in BagToSet(pending) :
            \A msg \in {Msg("commitReadyMsg"), Msg("commitNoChangesMsg")} :
               (/\ InCommit
                /\ subModel.state \in {"commitStateConfirm", "commitStateCommitting"}
                /\ task.cmd = "checkStatusAsync"
                /\ Handled(task, msg))
               => subModel'.state = subModel.state]_vars
    /\ [][(/\ InCommit /\ subModel.useAI /\ subModel.state = "commitStateInput"
           /\ Count(pending, IsOwnCheck) > 0
           /\ KeyPress("enter"))
          => subModel'.state # "commitStateConfirm"]_vars

(***************************************************************************)
(* C37: whenever the "y" key at the confirmation takes a commit flow to    *)
(* the committing state and dispatches git commit, commitMsg is not empty, *)
(* for a manually composed message and for a generated one.                *)
(***************************************************************************)
C37_CommitMessageNonEmpty ==
    (/\ call.fn = "confirm"
     /\ call.out.state = "commitStateCommitting"
     /\ "doCommit" \in call.out.cmds) =>
        call.out.commitMsg # <<>>

(***************************************************************************)
(* C38: while a sub-flow is active, Model.Update on any message other than *)
(* ReturnToMenuMsg (a key press, statusMsg, actionCompleteMsg, clearMsgMsg *)
(* or a window-size change) returns a Model whose status, message,         *)
(* msgType, loading, width, height and quitting are those it had.          *)
(***************************************************************************)
MenuFields == {"status", "message", "msgType", "loading", "width", "height", "quitting"}

C38_MenuFieldsUntouched ==
    (call.fn = "Update" /\ call.in.msg.t # "ReturnToMenuMsg") =>
        \A f \in MenuFields : call.out[f] = call.in.m[f]

\* a statusMsg arrived while the reset confirmation was open and the status
\* line was still empty, and the form's answer was not affected either
C38_Witness ==
    /\ call.fn = "Update" /\ call.in.msg.t = "statusMsg"
    /\ call.in.m.status = "nil" /\ call.in.m.subModel = NewResetModel
    /\ call.out.inSubView /\ call.out.subModel = NewResetModel

(***************************************************************************)
(* C39: in every state in which the menu is idle (no sub-flow active, no   *)
(* action loading, not quitting), each of the flows commit, AI commit,     *)
(* reset, rollback, publish and release is started by some key press:      *)
(* enter or space on some menu entry, or a shortcut key.                   *)
(***************************************************************************)
\* the menu is idle
Idle == ~Active /\ ~loading /\ ~quitting /\ ~exited

\* some key press on some selected entry makes the menu host the flow sub
Starts(sub) ==
    \E k \in Keys, sel \in Actions :
        LET r == Update(Menu, KeyMsg(k), sel)
        IN  r.m.inSubView /\ r.m.subModel = sub

C39_EveryFlowStartable ==
    Idle => \A sub \in {NewCommitModel(FALSE), NewCommitModel(TRUE), NewResetModel,
                        NewRollbackModel, NewPublishModel, NewReleaseModel} :
                Starts(sub)

====
